---- MODULE Spec2Model ----
(***************************************************************************)
(* A model of lib/database.js, the file-backed datastore of sails-disk.    *)
(*                                                                         *)
(* JavaScript objects are modelled as follows.                             *)
(*  - this.data, this.schema, this.counters are functions whose DOMAIN is  *)
(*    the set of keys of the object; `delete obj[k]` shrinks the domain.   *)
(*  - a record (and the `values` argument) is a function over Attr; the    *)
(*    value Undef stands for a key the object does not have.               *)
(*  - this.counters[c] is a function over Attr; 0 stands for a key the     *)
(*    object does not have (the code never leaves a counter at 0).         *)
(*  - array positions are 1-based here and 0-based in the source.          *)
(*  - lodash is modelled by the API the source is written against:         *)
(*    _.where(list, predicate) filters, _.contains(list, x) is membership, *)
(*    _.reject drops the elements the predicate accepts, _.extend copies   *)
(*    own keys.                                                            *)
(*  - waterline-criteria is an external matcher: a query is represented by *)
(*    the set of positions it returns for the rows it is evaluated on.     *)
(***************************************************************************)
EXTENDS Integers, Sequences, FiniteSets, TLC

VARIABLES
  data,        \* this.data:      collection name -> sequence of records
  schema,      \* this.schema:    collection name -> attribute name -> definition
  counters,    \* this.counters:  collection name -> attribute name -> last value
  writeQueue,  \* tasks pushed on this.writeQueue and not yet handed to the worker
  worker,      \* the write() call the queue's single worker is running, if any
  direct,      \* write() calls started by dropCollection, not yet called back
  file,        \* the content of this.filePath on disk
  cb,          \* the latest invocation of a caller's callback
  config,      \* the config the constructor was given
  loading      \* the fs call the read() of initialize is waiting for, if any

vars == <<data, schema, counters, writeQueue, worker, direct, file, cb, config, loading>>

(***************************************************************************)
(* Bounds of the model.                                                    *)
(***************************************************************************)
MaxRows == 2      \* records held by all collections together
MaxCounter == 2   \* highest auto-increment value issued
MaxQueue == 1     \* tasks waiting in the write queue
MaxDirect == 1    \* dropCollection writes in flight

Coll == {"users", "profiles"}
Attr == {"id", "email"}

(***************************************************************************)
(* JavaScript values.                                                      *)
(***************************************************************************)
Undef == [t |-> "undefined", v |-> 0]
Null == [t |-> "null", v |-> 0]
\* the number n
Num(n) == [t |-> "number", v |-> n]
\* the string holding the decimal numeral of n, such as "1": valid JSON text
Str(n) == [t |-> "numeral", v |-> n]
\* a string that is not JSON text, such as "a@x.com" or "2020-01-01T00:00:00.000Z"
Txt(n) == [t |-> "text", v |-> n]
\* a Date object; every call passes an object of its own
Date(n) == [t |-> "date", v |-> n]

NoValues == [a \in Attr |-> Undef]

\* the keys of an object
Keys(values) == {a \in Attr : values[a] # Undef}

\* x === y: an object is equal to itself only
StrictEq(x, y) == x = y /\ x.t # "date"

\* x == y: a number and a numeral string compare by numeric value, and null
\* equals undefined
LooseEq(x, y) ==
  \/ StrictEq(x, y)
  \/ /\ {x.t, y.t} = {"number", "numeral"}
     /\ x.v = y.v
  \/ {x.t, y.t} = {"undefined", "null"}

\* if (x): undefined, null, 0 are falsy; the strings of the model are non-empty
Truthy(x) ==
  /\ x.t \notin {"undefined", "null"}
  /\ ~(x.t = "number" /\ x.v = 0)

\* JSON.parse(x) does not throw
Parses(x) == x.t \in {"number", "numeral", "null"}

\* JSON.parse(x), x converted to a string first
JSONparseValue(x) == IF x.t = "numeral" THEN Num(x.v) ELSE x

(***************************************************************************)
(* Attribute definitions and the schemas createCollection is called with.  *)
(***************************************************************************)
AttrDef(type, unique, autoIncrement) ==
  [type |-> type, unique |-> unique, autoIncrement |-> autoIncrement]

\* { id: { autoIncrement, unique }, email: { unique } }
DefUsers ==
  [id |-> AttrDef("integer", TRUE, TRUE), email |-> AttrDef("string", TRUE, FALSE)]

\* { id: { autoIncrement }, email: { type: 'json', unique } }
DefJson ==
  [id |-> AttrDef("integer", FALSE, TRUE), email |-> AttrDef("json", TRUE, FALSE)]

Definitions == {DefUsers, DefJson}

\* the values insert and update are called with
InsertValues ==
  {NoValues, [id |-> Num(1), email |-> Undef], [id |-> Undef, email |-> Str(1)]}
UpdateValues == {[id |-> Str(1), email |-> Undef], [id |-> Undef, email |-> Str(1)]}
\* the same with a record that holds a Date
DatedValues == InsertValues \cup {[id |-> Undef, email |-> Date(1)]}

\* { id: { autoIncrement, unique } }: a definition that names one attribute
DefIdOnly == [id |-> AttrDef("integer", TRUE, TRUE)]

\* the definitions createCollection is called with, DefIdOnly among them
EdgeDefinitions == {DefUsers, DefIdOnly}

\* values that supply 0 and null for id
EdgeValues ==
  {NoValues, [id |-> Num(0), email |-> Undef], [id |-> Null, email |-> Undef],
   [id |-> Num(1), email |-> Str(1)]}

(***************************************************************************)
(* The persisted file: JSON.stringify and JSON.parse of the engine state.  *)
(***************************************************************************)
\* a value as JSON text: a Date is written as the string its toJSON gives
stringifyValue(x) == IF x.t = "date" THEN Txt(x.v) ELSE x

\* a record as JSON text: members whose value is undefined are left out
stringifyRecord(r) == [a \in Keys(r) |-> stringifyValue(r[a])]

stringifyCounters(k) == [a \in {x \in Attr : k[x] > 0} |-> k[a]]

\* JSON.stringify({ data: data, schema: schema, counters: counters })
JSONstringify(d, s, k) ==
  [data |-> [c \in DOMAIN d |-> [i \in 1..Len(d[c]) |-> stringifyRecord(d[c][i])]],
   schema |-> s,
   counters |-> [c \in DOMAIN k |-> stringifyCounters(k[c])]]

parseRecord(j) == [a \in Attr |-> IF a \in DOMAIN j THEN j[a] ELSE Undef]

parseCounters(j) == [a \in Attr |-> IF a \in DOMAIN j THEN j[a] ELSE 0]

\* JSON.parse(text)
JSONparse(text) ==
  [data |-> [c \in DOMAIN text.data |->
               [i \in 1..Len(text.data[c]) |-> parseRecord(text.data[c][i])]],
   schema |-> text.schema,
   counters |-> [c \in DOMAIN text.counters |-> parseCounters(text.counters[c])]]

EmptyText == [data |-> <<>>, schema |-> <<>>, counters |-> <<>>]

\* kind: "missing" (no file), "empty" (zero bytes), "json" (text is its content),
\* "corrupt" (bytes that JSON.parse rejects)
FileOf(kind, text) == [kind |-> kind, text |-> text]

(***************************************************************************)
(* Constraints.                                                            *)
(***************************************************************************)
\* uniqueConstraint with the scan of the records starting one position late
uniqueConstraintSkipFirst(c, values) ==
  IF c \notin DOMAIN schema \/ c \notin DOMAIN data THEN {}
  ELSE {e \in (DOMAIN schema[c]) \X (DOMAIN data[c]) :
          /\ e[2] > 1
          /\ schema[c][e[1]].unique
          /\ values[e[1]] # Undef
          /\ StrictEq(values[e[1]], data[c][e[2]][e[1]])}

\* this.uniqueConstraint(collectionName, values): the errors, one per unique
\* attribute and existing record holding the supplied value
uniqueConstraint(c, values) ==
  IF c \notin DOMAIN schema \/ c \notin DOMAIN data THEN {}
  ELSE {e \in (DOMAIN schema[c]) \X (DOMAIN data[c]) :
          /\ schema[c][e[1]].unique
          /\ values[e[1]] # Undef
          /\ StrictEq(values[e[1]], data[c][e[2]][e[1]])}

\* the attributes this.autoIncrement assigns
autoIncremented(c, values) ==
  IF c \notin DOMAIN schema THEN {}
  ELSE {a \in DOMAIN schema[c] : schema[c][a].autoIncrement /\ ~Truthy(values[a])}

\* this.counters after this.autoIncrement(collectionName, values)
autoIncrementCounters(c, values) ==
  [k \in DOMAIN counters |->
     IF k # c THEN counters[k]
     ELSE [a \in Attr |-> IF a \in autoIncremented(c, values)
                          THEN counters[c][a] + 1 ELSE counters[c][a]]]

\* autoIncrement assigning the counter as it was before the increment
autoIncrementStale(c, values) ==
  [a \in Attr |-> IF a \in autoIncremented(c, values)
                  THEN Num(counters[c][a]) ELSE values[a]]

\* the values this.autoIncrement(collectionName, values) returns
autoIncrement(c, values) ==
  [a \in Attr |-> IF a \in autoIncremented(c, values)
                  THEN Num(counters[c][a] + 1) ELSE values[a]]

\* this.serializeValues(collectionName, values)
serializeValues(c, values) ==
  [a \in Attr |->
     IF /\ a \in Keys(values)
        /\ c \in DOMAIN schema
        /\ a \in DOMAIN schema[c]
        /\ schema[c][a].type = "json"
        /\ Parses(values[a])
     THEN JSONparseValue(values[a])
     ELSE values[a]]

(***************************************************************************)
(* Callbacks.                                                              *)
(***************************************************************************)
\* op: the operation calling back; err: "none" or the kind of error passed;
\* n: the length of the error list
Callback(op, err, n) == [op |-> op, err |-> err, n |-> n]

Rows == LET Sum[S \in SUBSET Coll] ==
              IF S = {} THEN 0
              ELSE LET c == CHOOSE x \in S : TRUE
                   IN (IF c \in DOMAIN data THEN Len(data[c]) ELSE 0) + Sum[S \ {c}]
        IN Sum[Coll]

\* a write() call: st is "createFile" while fs.createFile is pending and
\* "outputJson" while fs.outputJson is pending; err is the error outputJson
\* will call back with
Write(c, st, err) == [coll |-> c, st |-> st, err |-> err]

Idle == Write("users", "idle", "none")

\* the config argument of the constructor
Config(path, identity) == [filePath |-> path, identity |-> identity]

\* { filePath: '.tmp/', identity: 'users' }
Configured == Config(Txt(1), Txt(2))

\* {}
Unconfigured == Config(Undef, Undef)

\* this.filePath = this.config.filePath + this.config.identity + '.db': a
\* string that ends in '.db' whatever the config holds
filePath == Txt(IF config.filePath = Undef THEN 0 ELSE config.filePath.v)

\* if(!this.filePath)
NoFilePath == ~Truthy(filePath)

\* the fields the constructor sets, but for the config
Constructed ==
  /\ data = <<>>
  /\ schema = <<>>
  /\ counters = <<>>
  /\ writeQueue = <<>>
  /\ worker = Idle
  /\ direct = <<>>
  /\ cb = Callback("none", "none", 0)
  /\ loading = "none"

Init ==
  /\ Constructed
  /\ config = Configured
  /\ file = FileOf("missing", EmptyText)

\* obj with obj[k] = v
Put(obj, k, v) == [x \in DOMAIN obj \cup {k} |-> IF x = k THEN v ELSE obj[x]]

\* obj after delete obj[k] for every k of ks
Delete(obj, ks) == [x \in DOMAIN obj \ ks |-> obj[x]]

\* this.writeQueue.push(collectionName)
push(c) == Append(writeQueue, c)

(***************************************************************************)
(* createCollection and setCollection.                                     *)
(***************************************************************************)
\* an operation calling back with the error of a missing filePath
ConfigurationError(op) ==
  /\ cb' = Callback(op, "ConfigurationError", 0)
  /\ UNCHANGED <<config, loading, data, schema, counters, writeQueue, worker, direct, file>>

\* a setCollection that merges the definition into the schema the collection has
CreateCollectionMerging(c, definition) ==
  IF NoFilePath THEN ConfigurationError("createCollection")
  ELSE
  /\ data' = IF c \in DOMAIN data THEN data ELSE Put(data, c, <<>>)
  /\ counters' = IF c \in DOMAIN counters THEN counters
                 ELSE Put(counters, c, [a \in Attr |-> 0])
  /\ schema' = Put(schema, c,
                   IF c \notin DOMAIN schema THEN definition
                   ELSE [a \in DOMAIN schema[c] \cup DOMAIN definition |->
                           IF a \in DOMAIN definition THEN definition[a]
                           ELSE schema[c][a]])
  /\ writeQueue' = push(c)
  /\ cb' = Callback("createCollection", "none", 0)
  /\ UNCHANGED <<config, loading, worker, direct, file>>

\* createCollection(collectionName, definition, cb): setCollection, then the
\* push on the write queue and the callback
CreateCollection(c, definition) ==
  IF NoFilePath THEN ConfigurationError("createCollection")
  ELSE
  /\ data' = IF c \in DOMAIN data THEN data ELSE Put(data, c, <<>>)
  /\ counters' = IF c \in DOMAIN counters THEN counters
                 ELSE Put(counters, c, [a \in Attr |-> 0])
  /\ schema' = Put(schema, c, definition)
  /\ writeQueue' = push(c)
  /\ cb' = Callback("createCollection", "none", 0)
  /\ UNCHANGED <<config, loading, worker, direct, file>>

(***************************************************************************)
(* insert.                                                                 *)
(***************************************************************************)
Insert(c, values) ==
  LET errors == uniqueConstraint(c, values)
  IN
  IF NoFilePath THEN ConfigurationError("insert")
  ELSE IF errors # {}
  THEN /\ cb' = Callback("insert", "violations", Cardinality(errors))
       /\ UNCHANGED <<config, loading, data, schema, counters, writeQueue, worker, direct, file>>
  ELSE IF autoIncremented(c, values) # {} /\ c \notin DOMAIN counters
  THEN \* this.counters[collectionName] is undefined: a TypeError is thrown
       /\ cb' = Callback("insert", "TypeError", 0)
       /\ UNCHANGED <<config, loading, data, schema, counters, writeQueue, worker, direct, file>>
  ELSE IF c \notin DOMAIN data
  THEN /\ counters' = autoIncrementCounters(c, values)
       /\ cb' = Callback("insert", "CollectionNotRegistered", 0)
       /\ UNCHANGED <<config, loading, data, schema, writeQueue, worker, direct, file>>
  ELSE /\ counters' = autoIncrementCounters(c, values)
       /\ data' = [data EXCEPT ![c] =
                     Append(@, serializeValues(c, autoIncrement(c, values)))]
       /\ writeQueue' = push(c)
       /\ cb' = Callback("insert", "none", 0)
       /\ UNCHANGED <<config, loading, schema, worker, direct, file>>

(***************************************************************************)
(* update.                                                                 *)
(***************************************************************************)
\* waterlineCriteria(collectionName, this.data, options).indicies: the sets
\* of positions a query can match
waterlineCriteria(c) ==
  IF c \in DOMAIN data THEN SUBSET (1..Len(data[c])) ELSE {{}}

\* uniqueAttrs reading the autoIncrement flag where it should read unique
uniqueAttrsByAutoIncrement(c, values) ==
  {a \in Keys(values) : a \in DOMAIN schema[c] /\ schema[c][a].autoIncrement}

\* _.where(_.keys(values), ...): the attributes being updated that are in the
\* schema and have a uniqueness constraint
uniqueAttrs(c, values) ==
  {a \in Keys(values) : a \in DOMAIN schema[c] /\ schema[c][a].unique}

\* the attributes for which update reports a uniqueness error on the single
\* matching record
updateErrors(c, result, values) ==
  {a \in uniqueAttrs(c, values) : ~LooseEq(result[a], values[a])}

\* _.extend(_values, values)
extend(record, values) ==
  [a \in Attr |-> IF a \in Keys(values) THEN values[a] ELSE record[a]]

Update(c, indicies, values) ==
  /\ indicies \in waterlineCriteria(c)
  /\ IF NoFilePath THEN ConfigurationError("update")
     ELSE IF Keys(values) # {} /\ c \notin DOMAIN schema
     THEN \* self.schema[collectionName] is undefined: a TypeError is thrown
          /\ cb' = Callback("update", "TypeError", 0)
          /\ UNCHANGED <<config, loading, data, schema, counters, writeQueue, worker, direct, file>>
     ELSE IF uniqueAttrs(c, values) # {} /\ Cardinality(indicies) > 1
     THEN /\ cb' = Callback("update", "Error", 0)
          /\ UNCHANGED <<config, loading, data, schema, counters, writeQueue, worker, direct, file>>
     ELSE IF /\ uniqueAttrs(c, values) # {}
             /\ \E i \in indicies : updateErrors(c, data[c][i], values) # {}
     THEN /\ \E i \in indicies :
               cb' = Callback("update", "violations",
                              Cardinality(updateErrors(c, data[c][i], values)))
          /\ UNCHANGED <<config, loading, data, schema, counters, writeQueue, worker, direct, file>>
     ELSE /\ data' = IF indicies = {} THEN data
                     ELSE [data EXCEPT ![c] =
                             [i \in DOMAIN @ |-> IF i \in indicies
                                                 THEN extend(@[i], values) ELSE @[i]]]
          /\ writeQueue' = push(c)
          /\ cb' = Callback("update", "none", 0)
          /\ UNCHANGED <<config, loading, schema, counters, worker, direct, file>>

(***************************************************************************)
(* destroy.                                                                *)
(***************************************************************************)
\* reject taking the positions of indicies as one less than they are
RECURSIVE rejectShifted(_, _)
rejectShifted(list, indicies) ==
  IF list = <<>> THEN <<>>
  ELSE LET n == Len(list)
           front == rejectShifted(SubSeq(list, 1, n - 1), indicies)
       IN IF (n - 1) \in indicies THEN front ELSE Append(front, list[n])

\* _.reject(list, function (model, i) { return _.contains(indicies, i); })
RECURSIVE reject(_, _)
reject(list, indicies) ==
  IF list = <<>> THEN <<>>
  ELSE LET n == Len(list)
           front == reject(SubSeq(list, 1, n - 1), indicies)
       IN IF n \in indicies THEN front ELSE Append(front, list[n])

Destroy(c, indicies) ==
  /\ indicies \in waterlineCriteria(c)
  /\ IF NoFilePath THEN ConfigurationError("destroy")
     ELSE
     /\ data' = Put(data, c, reject(IF c \in DOMAIN data THEN data[c] ELSE <<>>, indicies))
     /\ writeQueue' = push(c)
     /\ cb' = Callback("destroy", "none", 0)
     /\ UNCHANGED <<config, loading, schema, counters, worker, direct, file>>

(***************************************************************************)
(* dropCollection and write.                                               *)
(***************************************************************************)
\* dropCollection queueing its write and calling back at once, as the other
\* operations do
DropCollectionQueued(c, relations) ==
  /\ data' = Delete(data, {c} \cup relations)
  /\ schema' = Delete(schema, {c} \cup relations)
  /\ writeQueue' = push(c)
  /\ cb' = Callback("dropCollection", "none", 0)
  /\ UNCHANGED <<config, loading, counters, worker, direct, file>>

\* without a filePath the error is returned in an object and the callback is
\* not called
DropCollection(c, relations) ==
  IF NoFilePath THEN UNCHANGED vars
  ELSE
  /\ data' = Delete(data, {c} \cup relations)
  /\ schema' = Delete(schema, {c} \cup relations)
  /\ direct' = Append(direct, Write(c, "createFile", "none"))
  /\ UNCHANGED <<config, loading, counters, writeQueue, worker, file, cb>>

\* some write() call has its fs.outputJson pending
Outputting ==
  \/ worker.st = "outputJson"
  \/ \E i \in DOMAIN direct : direct[i].st = "outputJson"

\* fs.createFile(path, callback) leaves an existing file alone
createFile(f) == IF f.kind = "missing" THEN FileOf("empty", EmptyText) ELSE f

\* the file once fs.outputJson(path, { data, schema, counters }) has written
\* it: the JSON text of the state, or a mix of two texts when another
\* outputJson is writing the same file.  The file is taken to change when
\* outputJson is called, which is when the text is built.
outputJson(d, s, k) ==
  {FileOf("json", JSONstringify(d, s, k))}
    \cup (IF Outputting THEN {FileOf("corrupt", EmptyText)} ELSE {})

\* the queue's worker takes the next task and calls self.write
WorkerStart ==
  /\ worker.st = "idle"
  /\ writeQueue # <<>>
  /\ worker' = IF NoFilePath THEN Idle  \* write calls back with the error at once
               ELSE Write(Head(writeQueue), "createFile", "none")
  /\ writeQueue' = Tail(writeQueue)
  /\ UNCHANGED <<config, loading, data, schema, counters, direct, file, cb>>

\* fs.createFile calls back in write(w): on an error write calls back with
\* it, otherwise outputJson is called with the state as it is now.  The
\* result is the file and the write() call afterwards; outcome is "ok",
\* "createFile" (createFile fails) or "outputJson" (outputJson will fail,
\* leaving the file as it is).
write(w, outcome) ==
  IF outcome = "createFile"
  THEN {[file |-> file, w |-> Write(w.coll, "idle", "IOError")]}
  ELSE IF outcome = "outputJson"
  THEN {[file |-> createFile(file), w |-> Write(w.coll, "outputJson", "IOError")]}
  ELSE {[file |-> f, w |-> Write(w.coll, "outputJson", "none")] :
          f \in outputJson(data, schema, counters)}

\* a queue that hands a write's error to the caller and takes the records back
WorkerCreateFileTelling(outcome) ==
  /\ worker.st = "createFile"
  /\ \E r \in write(worker, outcome) :
       /\ file' = r.file
       /\ worker' = IF r.w.st = "idle" THEN Idle ELSE r.w
       /\ IF r.w.st = "idle"
          THEN /\ cb' = Callback(cb.op, r.w.err, 0)
               /\ data' = [c \in DOMAIN data |-> <<>>]
          ELSE UNCHANGED <<data, cb>>
  /\ UNCHANGED <<config, loading, schema, counters, writeQueue, direct>>

\* fs.createFile calls back in the worker's write(); on an error the queue
\* goes on to its next task
WorkerCreateFile(outcome) ==
  /\ worker.st = "createFile"
  /\ \E r \in write(worker, outcome) :
       /\ file' = r.file
       /\ worker' = IF r.w.st = "idle" THEN Idle ELSE r.w
  /\ UNCHANGED <<config, loading, data, schema, counters, writeQueue, direct, cb>>

\* a queue whose worker never frees itself after a write that failed
WorkerOutputJsonStalling ==
  /\ worker.st = "outputJson"
  /\ worker' = IF worker.err = "none" THEN Idle ELSE worker
  /\ UNCHANGED <<config, loading, data, schema, counters, writeQueue, direct, file, cb>>

\* fs.outputJson calls back in the worker's write(): the queue's callback
\* takes the outcome, no caller is told
WorkerOutputJson ==
  /\ worker.st = "outputJson"
  /\ worker' = Idle
  /\ UNCHANGED <<config, loading, data, schema, counters, writeQueue, direct, file, cb>>

\* direct without its element i
Remove(i) == [j \in 1..(Len(direct) - 1) |-> IF j < i THEN direct[j] ELSE direct[j + 1]]

\* fs.createFile calls back in a write() started by dropCollection; on an
\* error dropCollection's caller is called back with it
DropCreateFile(i, outcome) ==
  /\ direct[i].st = "createFile"
  /\ \E r \in write(direct[i], outcome) :
       /\ file' = r.file
       /\ IF r.w.st = "idle"
          THEN /\ direct' = Remove(i)
               /\ cb' = Callback("dropCollection", r.w.err, 0)
          ELSE /\ direct' = [direct EXCEPT ![i] = r.w]
               /\ UNCHANGED cb
  /\ UNCHANGED <<config, loading, data, schema, counters, writeQueue, worker>>

\* fs.outputJson calls back in a write() started by dropCollection, which
\* passes the outcome to dropCollection's caller
DropOutputJson(i) ==
  /\ direct[i].st = "outputJson"
  /\ cb' = Callback("dropCollection", direct[i].err, 0)
  /\ direct' = Remove(i)
  /\ UNCHANGED <<config, loading, data, schema, counters, writeQueue, worker, file>>

(***************************************************************************)
(* read, on a new Database instance for the same file.                     *)
(***************************************************************************)
\* read leaving this.counters as the constructor set it
readWithoutCounters(f) ==
  IF f.kind = "json"
  THEN [state |-> [data |-> JSONparse(f.text).data,
                   schema |-> JSONparse(f.text).schema,
                   counters |-> <<>>],
        err |-> "none"]
  ELSE [state |-> [data |-> <<>>, schema |-> <<>>, counters |-> <<>>],
        err |-> IF f.kind = "corrupt" THEN "ParseError" ELSE "none"]

\* the state of a new instance after read(), and the error it calls back with
read(f) ==
  IF NoFilePath
  THEN [state |-> [data |-> <<>>, schema |-> <<>>, counters |-> <<>>],
        err |-> "ConfigurationError"]
  ELSE IF f.kind = "json"
  THEN [state |-> JSONparse(f.text), err |-> "none"]
  ELSE [state |-> [data |-> <<>>, schema |-> <<>>, counters |-> <<>>],
        err |-> IF f.kind = "corrupt" THEN "ParseError" ELSE "none"]

\* the process ends with no disk write in flight; a new instance is built on
\* the same file and read() is called on it
FreshRead ==
  /\ worker.st = "idle"
  /\ direct = <<>>
  /\ data' = read(file).state.data
  /\ schema' = read(file).state.schema
  /\ counters' = read(file).state.counters
  /\ file' = IF NoFilePath THEN file ELSE createFile(file)
  /\ writeQueue' = <<>>
  /\ cb' = Callback("read", read(file).err, 0)
  /\ UNCHANGED <<config, loading, worker, direct>>

(***************************************************************************)
(* initialize, on the instance itself: read() and then setCollection for   *)
(* the configured collections.                                             *)
(***************************************************************************)
\* this.collections: the collections the instance is configured with
Collections == [users |-> DefUsers]

\* this.data, this.schema and this.counters after setCollection has been
\* called for every configured collection
registerData(d) ==
  [c \in DOMAIN d \cup DOMAIN Collections |-> IF c \in DOMAIN d THEN d[c] ELSE <<>>]

registerSchema(s) ==
  [c \in DOMAIN s \cup DOMAIN Collections |->
     IF c \in DOMAIN Collections THEN Collections[c] ELSE s[c]]

registerCounters(k) ==
  [c \in DOMAIN k \cup DOMAIN Collections |->
     IF c \in DOMAIN k THEN k[c] ELSE [a \in Attr |-> 0]]

\* checkData is done with the state d, s, k: the setCollection task registers
\* the configured collections and initialize calls back
Registered(d, s, k) ==
  /\ data' = registerData(d)
  /\ schema' = registerSchema(s)
  /\ counters' = registerCounters(k)
  /\ cb' = Callback("initialize", "none", 0)

\* initialize(cb) is called: with data in memory the read is skipped,
\* otherwise read() calls fs.exists
Initialize ==
  /\ loading = "none"
  /\ IF NoFilePath THEN ConfigurationError("initialize")
     ELSE IF DOMAIN data # {}
     THEN /\ Registered(data, schema, counters)
          /\ UNCHANGED <<config, loading, writeQueue, worker, direct, file>>
     ELSE /\ loading' = "exists"
          /\ UNCHANGED <<config, data, schema, counters, writeQueue, worker, direct,
                         file, cb>>

\* fs.exists calls back: this.data is emptied, and the file is created or read
InitExists ==
  /\ loading = "exists"
  /\ data' = <<>>
  /\ loading' = IF file.kind = "missing" THEN "createFile" ELSE "readFile"
  /\ UNCHANGED <<config, schema, counters, writeQueue, worker, direct, file, cb>>

\* the ways an fs call of read() can end
ReadOutcomes == {"ok", "fail"}

\* fs.createFile calls back in read()
InitCreateFile(outcome) ==
  /\ loading = "createFile"
  /\ loading' = "none"
  /\ IF outcome = "ok"
     THEN /\ file' = createFile(file)
          /\ Registered(data, schema, counters)
     ELSE /\ cb' = Callback("initialize", "IOError", 0)
          /\ UNCHANGED <<data, schema, counters, file>>
  /\ UNCHANGED <<config, writeQueue, worker, direct>>

\* a read() that takes content JSON.parse rejects for no content
InitReadFileLenient(outcome) ==
  /\ loading = "readFile"
  /\ loading' = "none"
  /\ IF outcome # "ok" \/ file.kind = "missing"
     THEN /\ cb' = Callback("initialize", "IOError", 0)
          /\ UNCHANGED <<data, schema, counters>>
     ELSE IF file.kind = "json"
     THEN Registered(JSONparse(file.text).data, JSONparse(file.text).schema,
                     JSONparse(file.text).counters)
     ELSE Registered(data, schema, counters)
  /\ UNCHANGED <<config, writeQueue, worker, direct, file>>

\* fs.readFile calls back in read(): no content gives the empty state, content
\* that JSON.parse rejects gives its error, other content is loaded
InitReadFile(outcome) ==
  /\ loading = "readFile"
  /\ loading' = "none"
  /\ IF outcome # "ok" \/ file.kind = "missing"
     THEN /\ cb' = Callback("initialize", "IOError", 0)
          /\ UNCHANGED <<data, schema, counters>>
     ELSE IF file.kind = "corrupt"
     THEN /\ cb' = Callback("initialize", "ParseError", 0)
          /\ UNCHANGED <<data, schema, counters>>
     ELSE IF file.kind = "json"
     THEN Registered(JSONparse(file.text).data, JSONparse(file.text).schema,
                     JSONparse(file.text).counters)
     ELSE Registered(data, schema, counters)
  /\ UNCHANGED <<config, writeQueue, worker, direct, file>>

(***************************************************************************)
(* Specifications.                                                         *)
(***************************************************************************)
\* the guard that keeps an insert within the bounds of the model
InsertBounded(c, values) ==
  /\ Rows < MaxRows
  /\ \A a \in autoIncremented(c, values) :
       c \in DOMAIN counters => counters[c][a] < MaxCounter

\* no task is queued and no write() call is running
Quiet == writeQueue = <<>> /\ worker.st = "idle" /\ direct = <<>>

\* the steps of the write queue and of the file system, fs calls ending as
\* outcomes allows
Disk(outcomes) ==
  \/ WorkerStart
  \/ \E o \in outcomes : WorkerCreateFile(o)
  \/ WorkerOutputJson
  \/ \E i \in DOMAIN direct, o \in outcomes : DropCreateFile(i, o)
  \/ \E i \in DOMAIN direct : DropOutputJson(i)

\* records are inserted in the first collection; the second one is created,
\* emptied and dropped
CreateCalls == ({"users"} \X Definitions) \cup {<<"profiles", DefUsers>>}

\* Spec: a caller that makes its next call once the disk has gone quiet, on
\* a file system that does not fail
Next ==
  \/ Quiet /\ \E x \in CreateCalls : CreateCollection(x[1], x[2])
  \/ Quiet /\ \E v \in InsertValues : InsertBounded("users", v) /\ Insert("users", v)
  \/ Quiet /\ \E v \in UpdateValues :
                \E ix \in waterlineCriteria("users") : Update("users", ix, v)
  \/ Quiet /\ \E c \in Coll : \E ix \in waterlineCriteria(c) : Destroy(c, ix)
  \/ Quiet /\ \E c \in Coll : \E r \in SUBSET (Coll \ {c}) : DropCollection(c, r)
  \/ Disk({"ok"})
  \/ FreshRead

Spec == Init /\ [][Next]_vars

\* the ways an fs call of write() can end; SpecFail and SpecLive let the file
\* system fail, the other specifications do not
Outcomes == {"ok", "createFile", "outputJson"}

\* SpecDisk: calls arrive at any moment, also while writes are in flight; the
\* records are the ones insert builds from auto-increment alone

NextDisk ==
  \/ /\ Len(writeQueue) < MaxQueue
     /\ \/ \E c \in Coll : CreateCollection(c, DefUsers)
        \/ InsertBounded("users", NoValues) /\ Insert("users", NoValues)
        \/ \E ix \in waterlineCriteria("users") :
              Update("users", ix, [id |-> Undef, email |-> Str(1)])
        \/ \E c \in Coll : \E ix \in waterlineCriteria(c) : Destroy(c, ix)
  \/ /\ Len(direct) < MaxDirect
     /\ \E c \in Coll : \E r \in SUBSET (Coll \ {c}) : DropCollection(c, r)
  \/ Disk({"ok"})
  \/ FreshRead

SpecDisk == Init /\ [][NextDisk]_vars

\* The caller of Spec on one collection, with records that hold Date objects.
NextDated ==
  \/ Quiet /\ \E d \in Definitions : CreateCollection("users", d)
  \/ Quiet /\ \E v \in DatedValues : InsertBounded("users", v) /\ Insert("users", v)
  \/ Quiet /\ \E ix \in waterlineCriteria("users") : Destroy("users", ix)
  \/ Quiet /\ DropCollection("users", {})
  \/ Disk({"ok"})
  \/ FreshRead

SpecDated == Init /\ [][NextDated]_vars

\* SpecEdge: the caller of Spec on one collection, with the inputs at the
\* edges: an instance built from a config without filePath, a definition that
\* names one attribute, values that supply 0 or null.
InitEdge ==
  /\ Constructed
  /\ config \in {Configured, Unconfigured}
  /\ file = FileOf("missing", EmptyText)

NextEdge ==
  \/ Quiet /\ \E d \in EdgeDefinitions : CreateCollection("users", d)
  \/ Quiet /\ \E v \in EdgeValues : InsertBounded("users", v) /\ Insert("users", v)
  \/ Quiet /\ \E v \in UpdateValues :
                \E ix \in waterlineCriteria("users") : Update("users", ix, v)
  \/ Quiet /\ \E ix \in waterlineCriteria("users") : Destroy("users", ix)
  \/ Quiet /\ DropCollection("users", {})
  \/ Disk({"ok"})
  \/ FreshRead

SpecEdge == InitEdge /\ [][NextEdge]_vars

\* SpecInit: an instance built on a file an earlier run left (none, an empty
\* one, one holding a state, one holding bytes that are not JSON) is
\* initialized, and takes calls at any moment, also while it loads.
StartText ==
  JSONstringify([users |-> <<[id |-> Num(1), email |-> Undef]>>],
                [users |-> DefUsers],
                [users |-> [id |-> 1, email |-> 0]])

StartFiles ==
  {FileOf("missing", EmptyText), FileOf("empty", EmptyText),
   FileOf("corrupt", EmptyText), FileOf("json", StartText)}

InitFiles ==
  /\ Constructed
  /\ config = Configured
  /\ file \in StartFiles

NextInit ==
  \/ Initialize
  \/ InitExists
  \/ \E o \in ReadOutcomes : InitCreateFile(o)
  \/ \E o \in ReadOutcomes : InitReadFile(o)
  \/ /\ Len(writeQueue) < MaxQueue
     /\ \/ CreateCollection("users", DefUsers)
        \/ InsertBounded("users", NoValues) /\ Insert("users", NoValues)
        \/ \E ix \in waterlineCriteria("users") : Destroy("users", ix)
  \/ /\ Len(direct) < MaxDirect
     /\ DropCollection("users", {})
  \/ Disk({"ok"})

SpecInit == InitFiles /\ [][NextInit]_vars

\* SpecFail: calls arrive at any moment on one collection, and the fs calls
\* of write() can fail.
NextFail ==
  \/ /\ Len(writeQueue) < MaxQueue
     /\ \/ CreateCollection("users", DefUsers)
        \/ InsertBounded("users", NoValues) /\ Insert("users", NoValues)
        \/ \E ix \in waterlineCriteria("users") :
              Update("users", ix, [id |-> Undef, email |-> Str(1)])
        \/ \E ix \in waterlineCriteria("users") : Destroy("users", ix)
  \/ /\ Len(direct) < MaxDirect
     /\ DropCollection("users", {})
  \/ Disk(Outcomes)

SpecFail == Init /\ [][NextFail]_vars

\* SpecLive: createCollection and insert calls arrive at any moment on two
\* collections, the fs calls of write() can fail; async.queue starts the next
\* task whenever its worker is free and every fs call calls back.
MaxLiveQueue == 2

NextLive ==
  \/ /\ Len(writeQueue) < MaxLiveQueue
     /\ \/ \E c \in Coll : CreateCollection(c, DefUsers)
        \/ InsertBounded("users", NoValues) /\ Insert("users", NoValues)
  \/ WorkerStart
  \/ \E o \in Outcomes : WorkerCreateFile(o)
  \/ WorkerOutputJson

SpecLive ==
  /\ Init
  /\ [][NextLive]_vars
  /\ WF_vars(WorkerStart)
  /\ WF_vars(\E o \in Outcomes : WorkerCreateFile(o))
  /\ WF_vars(WorkerOutputJson)

(***************************************************************************)
(* The claims.                                                             *)
(***************************************************************************)
\* a step in which the operation op calls back with err: one of the caller's
\* calls, which leave the disk writes in flight as they are
Called(op, err) ==
  /\ cb'.op = op
  /\ cb'.err \in err
  /\ worker' = worker
  /\ direct' = direct

Errors == {"none", "violations", "Error", "TypeError", "CollectionNotRegistered"}

\* the attribute a of collection c is unique in the schema
Unique(c, a) == c \in DOMAIN schema /\ a \in DOMAIN schema[c] /\ schema[c][a].unique

\* C1: in every reachable state, no two records of a collection hold the same
\* non-absent value for an attribute the schema marks unique.
C1_UniqueValuesDistinct ==
  \A c \in DOMAIN data : \A a \in Attr :
    Unique(c, a) =>
      \A i, j \in DOMAIN data[c] :
        (i # j /\ data[c][i][a] # Undef) => data[c][i][a] # data[c][j][a]

\* values supplies, for a unique attribute, a value a record of c holds
Collides(c, values) ==
  /\ c \in DOMAIN data
  /\ \E a \in Attr : \E i \in DOMAIN data[c] :
       Unique(c, a) /\ values[a] # Undef /\ data[c][i][a] = values[a]

\* C2: an insert whose value for a unique attribute is held by an existing
\* record calls back with a non-empty violation list and leaves the records,
\* the counters, the schema and the write queue as they were.
C2_InsertCollisionAtomic ==
  [][Called("insert", Errors) =>
       \A c \in Coll : \A v \in InsertValues :
         (Collides(c, v) /\ Insert(c, v)) =>
           /\ cb' = Callback("insert", "violations", cb'.n)
           /\ cb'.n > 0
           /\ UNCHANGED <<data, schema, counters, writeQueue>>]_vars

C2_Witness ==
  /\ cb.op = "insert"
  /\ cb.err = "violations"
  /\ "users" \in DOMAIN data
  /\ Len(data["users"]) = 1

\* the attribute a of collection c is auto-increment in the schema
AutoInc(c, a) ==
  c \in DOMAIN schema /\ a \in DOMAIN schema[c] /\ schema[c][a].autoIncrement

\* C3: a successful insert that omits an auto-increment attribute stores the
\* counter plus one for it and leaves the counter at that value; a rejected
\* insert, an update and a destroy leave the counters as they were (a step
\* that changes the counters is none of these).  Hence N such inserts from
\* counter k are given k+1 .. k+N in order.
C3_AutoIncrementSequence ==
  [][/\ Called("insert", {"none"}) =>
          \A c \in Coll : \A v \in InsertValues : \A a \in Attr :
            (AutoInc(c, a) /\ v[a] = Undef /\ Insert(c, v)) =>
              /\ counters'[c][a] = counters[c][a] + 1
              /\ data'[c][Len(data'[c])][a] = Num(counters[c][a] + 1)
     /\ counters' # counters =>
          ~ \/ /\ Called("insert", Errors \ {"none"})
               /\ \E c \in Coll : \E v \in InsertValues : Insert(c, v)
            \/ /\ Called("update", Errors)
               /\ \E c \in Coll : \E v \in UpdateValues :
                    \E ix \in waterlineCriteria(c) : Update(c, ix, v)
            \/ /\ Called("destroy", Errors)
               /\ \E c \in Coll : \E ix \in waterlineCriteria(c) : Destroy(c, ix)]_vars

C3_Witness ==
  /\ cb = Callback("insert", "none", 0)
  /\ "users" \in DOMAIN data
  /\ Len(data["users"]) = 2
  /\ data["users"][1]["id"] = Num(1)
  /\ data["users"][2]["id"] = Num(2)
  /\ counters["users"]["id"] = 2

\* the write() calls that have not called back
InFlight == (IF worker.st = "idle" THEN 0 ELSE 1) + Len(direct)

\* C4: at most one disk write to the file is in flight at any moment.
C4_SingleWriter == InFlight <= 1

\* a write() call of dropCollection calls back in this step
DropWriteEnds ==
  \E i \in DOMAIN direct :
    /\ direct' = Remove(i)
    /\ direct[i].st = "outputJson" \/ cb'.err = "IOError"

\* C5: dropCollection removes the data and schema of the collection and of
\* its relations and starts a write, without calling back; its callback is
\* invoked in the step in which that write ends.  The other operations call
\* back while the task they pushed is still waiting in the queue.
C5_DropAwaitsWrite ==
  [][/\ \A c \in Coll : \A r \in SUBSET Coll :
          (direct' # direct /\ DropCollection(c, r)) =>
            /\ ({c} \cup r) \cap (DOMAIN data' \cup DOMAIN schema') = {}
            /\ Len(direct') = Len(direct) + 1
            /\ direct'[Len(direct')].st = "createFile"
            /\ cb' = cb
     /\ (cb'.op = "dropCollection" /\ cb' # cb) => DropWriteEnds
     /\ (/\ cb'.op \in {"createCollection", "insert", "update", "destroy"}
         /\ cb'.err = "none"
         /\ cb' # cb)
        => /\ Len(writeQueue') = Len(writeQueue) + 1
           /\ UNCHANGED <<worker, direct, file>>]_vars

C5_Witness ==
  /\ cb = Callback("dropCollection", "none", 0)
  /\ direct = <<>>
  /\ file.kind = "json"
  /\ DOMAIN file.text.data = {}
  /\ DOMAIN file.text.counters = Coll

\* C6: an insert into a collection that is not registered (it has no schema:
\* createCollection sets it, dropCollection deletes it) calls back with
\* CollectionNotRegistered and changes nothing.
C6_InsertRequiresRegistration ==
  [][Called("insert", Errors) =>
       \A c \in Coll : \A v \in InsertValues :
         (c \notin DOMAIN schema /\ Insert(c, v)) =>
           /\ cb' = Callback("insert", "CollectionNotRegistered", 0)
           /\ UNCHANGED <<data, schema, counters, writeQueue>>]_vars

\* C7: an update that matches two or more records and sets a unique
\* attribute calls back with an error, changes no record and pushes no task.
C7_MultiUpdateRejected ==
  [][Called("update", Errors) =>
       \A c \in Coll : \A v \in UpdateValues : \A ix \in waterlineCriteria(c) :
         (/\ Cardinality(ix) >= 2
          /\ \E a \in Keys(v) : Unique(c, a)
          /\ Update(c, ix, v))
         => /\ cb' = Callback("update", "Error", 0)
            /\ UNCHANGED <<data, schema, counters, writeQueue>>]_vars

C7_Witness ==
  /\ cb = Callback("update", "Error", 0)
  /\ "users" \in DOMAIN data
  /\ Len(data["users"]) = 2

\* C8: a successful update of exactly one record finds, for every unique
\* attribute of values, the supplied value in that record already, so it
\* changes no value held for a unique attribute.
C8_SingleUpdateKeepsUnique ==
  [][Called("update", {"none"}) =>
       \A c \in Coll : \A v \in UpdateValues : \A ix \in waterlineCriteria(c) :
         (Cardinality(ix) = 1 /\ Update(c, ix, v)) =>
           \A i \in ix : \A a \in Keys(v) :
             Unique(c, a) => (v[a] = data[c][i][a] /\ data'[c][i][a] = data[c][i][a])]_vars

\* rows without the positions of ix, the others in their order
Without(rows, ix) ==
  LET keep == (DOMAIN rows) \ ix
      Rank(p) == Cardinality({q \in keep : q <= p})
  IN [j \in 1..Cardinality(keep) |-> rows[CHOOSE p \in keep : Rank(p) = j]]

C10_RoundTrip ==
  [][(/\ cb'.op = "read"
      /\ file.kind = "json"
      /\ file.text = JSONstringify(data, schema, counters)
      /\ FreshRead)
     => /\ data' = data
        /\ schema' = schema
        /\ counters' = counters]_vars

\* every value the records hold is one JSON text represents
JSONValues ==
  \A c \in DOMAIN data : \A i \in DOMAIN data[c] : \A a \in Attr :
    data[c][i][a].t # "date"

\* C10, amended: the same of a state whose records hold JSON values only
\* (a member that is undefined counts as absent).
C10_RoundTripOfJSONValues ==
  [][(/\ cb'.op = "read"
      /\ JSONValues
      /\ file.kind = "json"
      /\ file.text = JSONstringify(data, schema, counters)
      /\ FreshRead)
     => /\ data' = data
        /\ schema' = schema
        /\ counters' = counters]_vars

C10_Witness ==
  /\ cb = Callback("read", "none", 0)
  /\ JSONValues
  /\ file.kind = "json"
  /\ file.text = JSONstringify(data, schema, counters)
  /\ "users" \in DOMAIN data
  /\ Len(data["users"]) = 2
  /\ \E i \in DOMAIN data["users"] : data["users"][i]["email"] = Undef
  /\ counters["users"]["id"] > 0

\* C11: on an instance whose config holds no filePath, createCollection,
\* dropCollection, insert, update and destroy each call back with the
\* configuration error and leave data, schema, counters and the write queue
\* as they were.
C11_NoFilePathFailsFast ==
  [][config.filePath = Undef =>
       /\ \A d \in EdgeDefinitions :
            CreateCollection("users", d) =>
              /\ cb' = Callback("createCollection", "ConfigurationError", 0)
              /\ UNCHANGED <<data, schema, counters, writeQueue>>
       /\ DropCollection("users", {}) =>
              /\ cb' = Callback("dropCollection", "ConfigurationError", 0)
              /\ UNCHANGED <<data, schema, counters, writeQueue>>
       /\ \A v \in EdgeValues :
            Insert("users", v) =>
              /\ cb' = Callback("insert", "ConfigurationError", 0)
              /\ UNCHANGED <<data, schema, counters, writeQueue>>
       /\ \A v \in UpdateValues : \A ix \in waterlineCriteria("users") :
            Update("users", ix, v) =>
              /\ cb' = Callback("update", "ConfigurationError", 0)
              /\ UNCHANGED <<data, schema, counters, writeQueue>>
       /\ \A ix \in waterlineCriteria("users") :
            Destroy("users", ix) =>
              /\ cb' = Callback("destroy", "ConfigurationError", 0)
              /\ UNCHANGED <<data, schema, counters, writeQueue>>]_vars

\* the step in which initialize calls back after its read() found the file in
\* the state `was` ("createFile": absent, "readFile": present) with no fs error
Initialized(was) ==
  /\ loading = was
  /\ loading' = "none"
  /\ cb'.op = "initialize"
  /\ cb'.err # "IOError"

QueuedWriteFails ==
  /\ worker'.st = "idle"
  /\ \/ worker.st = "createFile" /\ file' = file
     \/ worker.st = "outputJson" /\ worker.err # "none"

\* the operations that push a write on the queue
Enqueuers == {"createCollection", "insert", "update", "destroy"}

\* C13: a queued write that fails changes neither data, schema, counters nor what the caller was told, and the step that pushed a write is the one in which its operation called back with success.
C13_WriteFailureSilent ==
  [][/\ QueuedWriteFails => UNCHANGED <<data, schema, counters, cb>>
     /\ Len(writeQueue') > Len(writeQueue) =>
          /\ cb'.op \in Enqueuers
          /\ cb'.err = "none"]_vars

C13_Witness ==
  /\ worker.st = "outputJson"
  /\ worker.err = "IOError"
  /\ cb.op = "insert"
  /\ cb.err = "none"
  /\ Rows > 0

\* C14: whenever no task is queued and no write() call is running, a file that was written holds the text of the data, the schema and the counters in memory.
C14_QuietFileIsState ==
  (Quiet /\ file.kind \notin {"missing", "empty"}) =>
     /\ file.kind = "json"
     /\ file.text = JSONstringify(data, schema, counters)

\* the step in which dropCollection(c, ...) is called and starts its write
Dropped(c) ==
  /\ Len(direct') > Len(direct)
  /\ direct'[Len(direct')].coll = c

\* C15: in every step of the instance no counter gets lower, except that a step in which dropCollection is called for a collection leaves that collection without counters, or with counters at zero.
C15_CountersMonotonic ==
  [][cb'.op # "read" =>
       \A c \in DOMAIN counters :
         IF Dropped(c)
         THEN c \in DOMAIN counters' => \A a \in Attr : counters'[c][a] = 0
         ELSE /\ c \in DOMAIN counters'
              /\ \A a \in Attr : counters'[c][a] >= counters[c][a]]_vars

\* C16: a successful insert stores a value supplied for an auto-increment attribute as supplied, 0 and null included, and leaves the counter as it was; for an attribute left out it raises the counter by one and stores the new value.
C16_AutoIncrementOnlyAbsent ==
  [][Called("insert", {"none"}) =>
       \A v \in EdgeValues : \A a \in Attr :
         (AutoInc("users", a) /\ Insert("users", v)) =>
           IF v[a] = Undef
           THEN /\ counters'["users"][a] = counters["users"][a] + 1
                /\ data'["users"][Len(data'["users"])][a] = Num(counters'["users"][a])
           ELSE /\ counters'["users"][a] = counters["users"][a]
                /\ data'["users"][Len(data'["users"])][a] = v[a]]_vars

\* C17: createCollection of a collection that exists keeps its records and its counters and keeps the definition of every attribute the supplied definition does not name, taking the supplied one for those it names; of a collection that does not exist it creates empty records and empty counters.
C17_ReRegistrationMerges ==
  [][Called("createCollection", {"none"}) =>
       \A d \in EdgeDefinitions :
         CreateCollection("users", d) =>
           IF "users" \in DOMAIN data
           THEN /\ data'["users"] = data["users"]
                /\ counters'["users"] = counters["users"]
                /\ \A a \in DOMAIN d : schema'["users"][a] = d[a]
                /\ \A a \in DOMAIN schema["users"] \ DOMAIN d :
                     /\ a \in DOMAIN schema'["users"]
                     /\ schema'["users"][a] = schema["users"][a]
           ELSE /\ data'["users"] = <<>>
                /\ \A a \in Attr : counters'["users"][a] = 0
                /\ schema'["users"] = d]_vars

\* C17 (amended): createCollection of a collection that exists keeps its records and its counters and puts the supplied definition in the place of its schema; of a collection that does not exist it creates empty records under the supplied definition, with empty counters unless counters are still held under that name.
C17_ReRegistrationReplaces ==
  [][Called("createCollection", {"none"}) =>
       \A d \in EdgeDefinitions :
         CreateCollection("users", d) =>
           /\ schema'["users"] = d
           /\ IF "users" \in DOMAIN data
              THEN data'["users"] = data["users"]
              ELSE data'["users"] = <<>>
           /\ IF "users" \in DOMAIN counters
              THEN counters'["users"] = counters["users"]
              ELSE \A a \in Attr : counters'["users"][a] = 0]_vars

C17_Witness ==
  /\ cb = Callback("createCollection", "none", 0)
  /\ "users" \in DOMAIN data
  /\ Len(data["users"]) > 0
  /\ data["users"][1]["email"] # Undef
  /\ counters["users"]["id"] > 0
  /\ schema["users"] = DefIdOnly

\* C18: while initialize has not called back, a step that is not a step of the load leaves data, schema and counters as they were, and a step of the load leaves in place every collection and record that is in memory.
C18_InitializationGate ==
  [][loading # "none" =>
       IF loading' = loading
       THEN UNCHANGED <<data, schema, counters>>
       ELSE \A c \in DOMAIN data : c \in DOMAIN data' /\ data'[c] = data[c]]_vars

\* C19: a push puts the request behind the ones waiting, the worker takes the request at the head of the queue and only when it is free, and every request waiting in the queue is in the end taken by the worker, writes that fail notwithstanding.
C19_QueueOrderAndProgress ==
  /\ [][/\ Len(writeQueue') > Len(writeQueue) =>
             \E c \in Coll : writeQueue' = Append(writeQueue, c)
        /\ Len(writeQueue') < Len(writeQueue) =>
             /\ worker.st = "idle"
             /\ worker'.st = "createFile"
             /\ worker'.coll = Head(writeQueue)
             /\ writeQueue' = Tail(writeQueue)]_vars
  /\ \A i \in 1..MaxLiveQueue : \A c \in Coll :
       (Len(writeQueue) >= i /\ writeQueue[i] = c)
         ~> (worker.st = "createFile" /\ worker.coll = c)

C19_Witness ==
  /\ worker.st = "outputJson"
  /\ worker.err = "IOError"
  /\ Len(writeQueue) = 2
  /\ writeQueue[1] # writeQueue[2]

\* the ways insert and update call back when they reject for uniqueness
UniquenessErrors == {"violations", "Error"}

\* C20: an insert or an update rejected for uniqueness calls back with a list of violations that has an entry, at least, for each unique attribute whose supplied value an existing record holds (insert) or whose value the update would change (update).
C20_ViolationsListComplete ==
  [][/\ Called("insert", UniquenessErrors) =>
          /\ cb'.err = "violations"
          /\ \A v \in InsertValues :
               Insert("users", v) =>
                 cb'.n >= Cardinality({a \in Attr :
                            /\ Unique("users", a)
                            /\ v[a] # Undef
                            /\ \E i \in DOMAIN data["users"] :
                                 StrictEq(data["users"][i][a], v[a])})
     /\ Called("update", UniquenessErrors) =>
          /\ cb'.err = "violations"
          /\ \A v \in UpdateValues : \A ix \in waterlineCriteria("users") :
               Update("users", ix, v) =>
                 cb'.n >= Cardinality({a \in Keys(v) :
                            /\ Unique("users", a)
                            /\ \E i \in ix : ~StrictEq(data["users"][i][a], v[a])})]_vars

====
